---- MODULE Spec2Model ----
(***************************************************************************)
(* State-machine model of dbseeder's WqpProgram (src/dbseeder/programs.py): *)
(* construction, the full load seed(), the incremental update() and the    *)
(* batched sink _insert_rows, run against a destination database with the  *)
(* tables Stations and Results.                                            *)
(***************************************************************************)
EXTENDS Bags, FiniteSets, Integers, Sequences, TLC

\* ------------------------------------------------------------------ bounds
MaxFiles == 2      \* csv files a folder holds at most
MaxRows == 2       \* data rows a csv file or a service response holds at most
MaxRuns == 2       \* times the caller invokes update()
ExtraRows == 1     \* rows beyond one full batch in the sink-only specification
MaxIds == 3        \* ids a list or file handed to a helper on its own holds at most

\* ------------------------------------------------------- program constants
batch_size == 5000
None == "None"
NoDate == 0        \* the None that max(SampleDate) gives on an empty table

\* ----------------------------------------------------------------- helpers
SeqsUpTo(S, n) == UNION {[1..k -> S] : k \in 0..n}

Range(s) == {s[k] : k \in 1..Len(s)}

RECURSIVE SetToSeqs(_)
\* every ordering of a finite set (the order of list(set(..)) or of a dict)
SetToSeqs(S) ==
    IF S = {} THEN {<<>>}
    ELSE UNION {{<<x>> \o t : t \in SetToSeqs(S \ {x})} : x \in S}

RECURSIVE Distinct(_)
\* the elements of a sequence in order of first occurrence
Distinct(s) ==
    IF s = <<>> THEN <<>>
    ELSE LET front == Distinct(SubSeq(s, 1, Len(s) - 1))
             last == s[Len(s)]
         IN IF last \in Range(front) THEN front ELSE Append(front, last)

\* ---------------------------------------------------------- id arithmetic
\* A station id is a sequence of tokens, 'UTAHDWQ_WQX-4904410' being
\* <<"UTAHDWQ", "_WQX", "-", "4904410">>.
StationIds ==
    { <<"A", "-", "1">>, <<"A", "_WQX", "-", "1">>, <<"B", "_WQX", "-", "2">> }

\* wqx_re = re.compile('(_WQX)-'); wqx_re.search(id)
wqx_re_search(id) ==
    \E k \in 1..(Len(id) - 1) : id[k] = "_WQX" /\ id[k + 1] = "-"

RECURSIVE wqx_re_sub(_)
\* re.sub(wqx_re, '-', id): every '_WQX-' becomes '-'
wqx_re_sub(id) ==
    IF Len(id) < 2 THEN id
    ELSE IF id[1] = "_WQX" /\ id[2] = "-"
         THEN <<"-">> \o wqx_re_sub(SubSeq(id, 3, Len(id)))
         ELSE <<id[1]>> \o wqx_re_sub(Tail(id))

\* sql['wqxids']: ... LIKE '%_WQX%' ('_' matches any one character)
like_wqx(id) == \E k \in 1..Len(id) : id[k] \in {"_WQX", "DWQX"}

\* ------------------------------------------------------------------- rows
SampleIds == {"s1", "s2"}
Dates == 1..2

StationRows == [StationId : StationIds]

\* the result rows a csv file of the Results folder can hold
FileResultRows ==
    [SampleId : SampleIds, StationId : {<<"A", "-", "1">>}, SampleDate : Dates,
     Param : {"p"}]

\* the result rows the remote service can hold
ServiceResultRows ==
    [SampleId : SampleIds, StationId : StationIds, SampleDate : Dates, Param : {"p"}]

Ids(rows) == [k \in 1..Len(rows) |-> rows[k].StationId]

\* Normalizer.normalize_station: the stored StationId has the marker removed
normalize_station(row) == [row EXCEPT !.StationId = wqx_re_sub(row.StationId)]

\* ChargeBalancer.get_charge_balance: the derived rows of one sample group
get_charge_balance(samples) ==
    IF samples = <<>> THEN <<>>
    ELSE << [samples[1] EXCEPT !.Param = "CB"] >>

VARIABLES
    fs,            \* which folders exist under file_location
    wqp,           \* the result rows the remote service holds, fixed once asked
    pc,            \* position of the program
    has_folders,   \* hasattr(self, 'results_folder') and 'stations_folder'
    cursor,        \* self.cursor: "none" or "open"
    tempdb,        \* TRUE while the scratch database file TEMPDB exists
    Stations,      \* destination table, committed rows (a bag)
    Results,       \* destination table, committed rows (a bag)
    uncommitted,   \* rows inserted on the connection since its last commit, by table
    files,         \* files left in the running loop of _seed_by_file
    csv,           \* rows of the result file being processed
    sample_ids,    \* sample ids left in the loop over unique_sample_ids
    ins,           \* the running (or last) _insert_rows call
    upd,           \* the locals of update(), the sample ids stored when it began and
                   \* whether the station response held every id requested
    op,            \* the operation running or last run
    outcome,       \* how the last operation ended
    runs,          \* operations invoked so far
    log,           \* what the running (or last) operation did, in order
    pass,          \* the station ids the running station loop has read and kept
    executed,      \* statements the running (or last) operation executed
    attempts,      \* cursor.execute calls of the running (or last) _insert_rows,
                   \* as runs [from, to, ok, err] over the positions of its rows
    commits,       \* cursor.commit calls of the running (or last) _insert_rows
    retry,         \* bookkeeping of an update() that is being re-invoked
    call           \* one helper called on its own: its argument and what it returned

vars == << fs, wqp, pc, has_folders, cursor, tempdb, Stations, Results,
           uncommitted, files, csv, sample_ids, ins, upd, op, outcome, runs,
           log, pass, executed, attempts, commits, retry, call >>

NoIns == [rows |-> <<>>, tbl |-> None, i |-> 1, pos |-> 1, ret |-> None,
          state |-> "none"]
NoUpd == [last_updated |-> NoDate, new_results |-> <<>>, groups |-> <<>>, committed |-> FALSE,
          new_station_ids |-> <<>>, present |-> {}, answered |-> TRUE]
NoRetry == [state |-> "none", owed |-> {}, fresh |-> {}]
NoOutcome == [status |-> "none", kind |-> None, err |-> None]
NoCall == [fn |-> None, arg |-> <<>>, ret |-> <<>>, queries |-> 0, err |-> None]

\* the errors cursor.execute can raise
DbErrors == {"E1", "E2"}

NoPass == [read |-> {}, kept |-> EmptyBag]

Event(ev, tbl) == [ev |-> ev, tbl |-> tbl]

\* ------------------------------------------------------------ destination
RECURSIVE BagOfSeq(_)
BagOfSeq(s) ==
    IF s = <<>> THEN EmptyBag ELSE SetToBag({Head(s)}) (+) BagOfSeq(Tail(s))

\* a connection on which nothing was executed since its last commit
NoStatements == [Stations |-> EmptyBag, Results |-> EmptyBag]

\* cursor.execute(statement) of an insert of row into table tbl
cursor_execute(stmts, tbl, row) == [stmts EXCEPT ![tbl] = @ (+) SetToBag({row})]

Pending == BagCardinality(uncommitted.Stations) + BagCardinality(uncommitted.Results)

\* cursor.commit(): what was executed since the last commit becomes durable
cursor_commit ==
    /\ Stations' = Stations (+) uncommitted.Stations
    /\ Results' = Results (+) uncommitted.Results
    /\ uncommitted' = NoStatements

\* sql['max_sample_date']
max_sample_date ==
    IF BagToSet(Results) = {} THEN NoDate
    ELSE CHOOSE d \in {r.SampleDate : r \in BagToSet(Results)} :
             \A r \in BagToSet(Results) : r.SampleDate <= d

StoredStationIds == {r.StationId : r \in BagToSet(Stations)}
StoredSampleIds == {r.SampleId : r \in BagToSet(Results)}

\* -------------------------------------------------------------- exceptions
\* An exception leaves seed()/update(): the finally of _seed_by_file removes
\* the scratch database when a result file is open, the finally of seed() and
\* update() deletes the cursor, and the closed connection rolls back.
Raised(kind, e) ==
    /\ pc' = "idle"
    /\ cursor' = "none"
    /\ uncommitted' = NoStatements
    /\ tempdb' = IF op = "seed" /\ pc \in {"seed_samples", "insert_execute", "insert_commit"}
                    /\ (pc = "seed_samples" \/ ins.ret = "seed_samples")
                 THEN FALSE ELSE tempdb
    /\ outcome' = [status |-> "raised", kind |-> kind, err |-> e]
    /\ files' = 0
    /\ csv' = <<>>
    /\ sample_ids' = <<>>
    /\ upd' = NoUpd

\* ------------------------------------------------------------ _insert_rows
\* The list of rows of a call is held as runs of equal rows, and the log of
\* its cursor.execute calls as runs of successful calls on successive rows.
Runs(rows) == [k \in 1..Len(rows) |-> [row |-> rows[k], times |-> 1]]

RECURSIVE Remaining(_)
Remaining(rr) ==
    IF rr = <<>> THEN 0 ELSE Head(rr).times + Remaining(Tail(rr))

NextRow(rr) == Head(rr).row

Rest(rr) ==
    IF Head(rr).times > 1 THEN [rr EXCEPT ![1].times = @ - 1] ELSE Tail(rr)

Attempt(tried, pos, ok, err) ==
    IF tried # <<>> /\ ok /\ tried[Len(tried)].ok /\ pos = tried[Len(tried)].to + 1
    THEN [tried EXCEPT ![Len(tried)].to = pos]
    ELSE Append(tried, [from |-> pos, to |-> pos, ok |-> ok, err |-> err])

\* lines 462-468: open the cursor when there is none, i = 1
InsertCall(rows, tbl, ret) ==
    /\ ins' = [rows |-> Runs(rows), tbl |-> tbl, i |-> 1, pos |-> 1, ret |-> ret,
               state |-> "running"]
    /\ cursor' = "open"
    /\ attempts' = <<>>
    /\ commits' = 0
    /\ pc' = "insert_execute"

\* InsertExecute with the failure of a statement logged and passed over
InsertExecute_swallowed ==
    /\ pc = "insert_execute"
    /\ ins.rows # <<>>
    /\ \/ /\ uncommitted' = cursor_execute(uncommitted, ins.tbl, NextRow(ins.rows))
          /\ attempts' = Attempt(attempts, ins.pos, TRUE, None)
          /\ executed' = executed + 1
       \/ \E e \in DbErrors :
            /\ attempts' = Attempt(attempts, ins.pos, FALSE, e)
            /\ UNCHANGED << uncommitted, executed >>
    /\ ins' = [ins EXCEPT !.i = @ + 1]
    /\ pc' = "insert_commit"
    /\ UNCHANGED << call, fs, wqp, has_folders, Stations, Results, op, runs, log, pass,
                    commits, cursor, tempdb, outcome, files, csv, sample_ids, upd,
                    retry >>

\* lines 470-478: format and execute the statement of the next row
InsertExecute ==
    /\ pc = "insert_execute"
    /\ ins.rows # <<>>
    /\ \/ /\ uncommitted' = cursor_execute(uncommitted, ins.tbl, NextRow(ins.rows))
          /\ ins' = [ins EXCEPT !.i = @ + 1]
          /\ attempts' = Attempt(attempts, ins.pos, TRUE, None)
          /\ executed' = executed + 1
          /\ pc' = "insert_commit"
          /\ retry' = retry
          /\ UNCHANGED << cursor, tempdb, outcome, files, csv, sample_ids, upd >>
       \/ \E e \in DbErrors :
            /\ attempts' = Attempt(attempts, ins.pos, FALSE, e)
            /\ ins' = [ins EXCEPT !.state = "raised"]
            /\ executed' = executed
            /\ Raised("db", e)
            /\ retry' = IF op = "update" /\ retry.state = "none" /\ upd.committed
                        THEN [retry EXCEPT !.state = "pending", !.owed = retry.fresh]
                        ELSE retry
    /\ UNCHANGED << call, fs, wqp, has_folders, Stations, Results, op, runs, log, pass,
                    commits >>

\* InsertCommit with both commits left to the end of the call
InsertCommit_deferred ==
    /\ pc = "insert_commit"
    /\ IF Remaining(ins.rows) = 1
       THEN /\ cursor_commit
            /\ commits' = commits + 1
       ELSE UNCHANGED << Stations, Results, uncommitted, commits >>
    /\ ins' = [ins EXCEPT !.rows = Rest(@), !.pos = @ + 1]
    /\ upd' = upd
    /\ pc' = "insert_execute"
    /\ UNCHANGED << call, fs, wqp, has_folders, cursor, tempdb, files, csv, sample_ids,
                    op, outcome, runs, log, pass, executed, attempts, retry >>

\* lines 480-484: the batch commit and the commit that ends each iteration
InsertCommit ==
    /\ pc = "insert_commit"
    /\ cursor_commit
    /\ commits' = commits + (IF ins.i % batch_size = 0 THEN 2 ELSE 1)
    /\ ins' = [ins EXCEPT !.rows = Rest(@), !.pos = @ + 1]
    /\ upd' = IF op = "update" THEN [upd EXCEPT !.committed = TRUE] ELSE upd
    /\ pc' = "insert_execute"
    /\ UNCHANGED << call, fs, wqp, has_folders, cursor, tempdb, files, csv, sample_ids,
                    op, outcome, runs, log, pass, executed, attempts, retry >>

\* the loop is exhausted: _insert_rows returns to its caller
InsertReturn ==
    /\ pc = "insert_execute"
    /\ ins.rows = <<>>
    /\ ins' = [ins EXCEPT !.state = "returned"]
    /\ pc' = ins.ret
    /\ UNCHANGED << call, fs, wqp, has_folders, cursor, tempdb, Stations, Results,
                    uncommitted, files, csv, sample_ids, upd, op, outcome, runs,
                    log, pass, executed, attempts, commits, retry >>

\* ---------------------------------------------------------------- __init__
\* isdir(results_folder or stations_folder): results_folder is a non-empty
\* string, so the operand of isdir is results_folder (line 172)
child_folders_exist(f) == f.results

\* lines 149-177
__init__ ==
    /\ pc = "new"
    /\ op' = "__init__"
    /\ \E file_location \in {None, "location"} :
         IF file_location = None
         THEN /\ has_folders' = FALSE
              /\ pc' = "idle"
              /\ outcome' = [status |-> "ok", kind |-> None, err |-> None]
         ELSE IF ~fs.parent \/ ~child_folders_exist(fs)
         THEN /\ has_folders' = FALSE
              /\ pc' = "failed"
              /\ outcome' = [status |-> "raised", kind |-> "config", err |-> "folders"]
         ELSE /\ has_folders' = TRUE
              /\ pc' = "idle"
              /\ outcome' = [status |-> "ok", kind |-> None, err |-> None]
    /\ UNCHANGED << call, fs, wqp, cursor, tempdb, Stations, Results, uncommitted, files,
                    csv, sample_ids, ins, upd, runs, log, pass, executed, attempts,
                    commits, retry >>

\* ------------------------------------------------------------- the full load
\* _get_files: glob(join(location, '*.csv')) finds nothing in a missing folder
FilesIn(exists) == IF exists THEN 0..MaxFiles ELSE {0}

\* _get_wqx_duplicate_ids on a file path (lines 377-384)
_get_wqx_duplicate_ids_file(rows) ==
    {wqx_re_sub(rows[k].StationId) : k \in {j \in 1..Len(rows) : like_wqx(rows[j].StationId)}}

\* _get_wqx_duplicate_ids giving the ids of the bare rows that have a marked twin
_get_wqx_duplicate_ids_paired(stations) ==
    LET ids == Range(Ids(stations))
    IN {b \in ids : ~wqx_re_search(b) /\ \E m \in ids : wqx_re_search(m) /\ wqx_re_sub(m) = b}

\* _get_wqx_duplicate_ids on a list of mapped stations (line 386)
_get_wqx_duplicate_ids_list(stations) ==
    {wqx_re_sub(stations[k].StationId) :
        k \in {j \in 1..Len(stations) : wqx_re_search(stations[j].StationId)}}

\* the rows _seed_stations does not skip (lines 289-291)
kept_stations(rows, wqx) ==
    LET keep(row) == ~(~wqx_re_search(row.StationId) /\ row.StationId \in wqx)
    IN SelectSeq(rows, keep)

\* _seed_stations: the rows handed to _insert_rows (lines 281-312)
_seed_stations(rows, wqx) ==
    LET kept == kept_stations(rows, wqx)
    IN [k \in 1..Len(kept) |-> normalize_station(kept[k])]

\* _seed_results: the rows handed to _insert_rows (lines 314-337)
_seed_results(samples_for_id) == samples_for_id \o get_charge_balance(samples_for_id)

\* _get_samples_for_id (lines 388-401)
_get_samples_for_id(sample_id, rows) ==
    LET match(row) == row.SampleId = sample_id
    IN SelectSeq(rows, match)

\* seed() up to the first _get_files of _seed_by_file (lines 179-184, 232-234);
\* main() calls it once, on the program it has just constructed
seed ==
    /\ pc = "idle"
    /\ runs = 0
    /\ op' = "seed"
    /\ runs' = runs + 1
    /\ log' = <<>>
    /\ pass' = NoPass
    /\ executed' = 0
    /\ IF ~has_folders
       THEN Raised("config", "no_location")
       ELSE \E n \in FilesIn(fs.stations) :
              IF n = 0
              THEN Raised("config", "no_csv")
              ELSE /\ files' = n
                   /\ pc' = "seed_stations"
                   /\ outcome' = [status |-> "running", kind |-> None, err |-> None]
                   /\ UNCHANGED << cursor, uncommitted, tempdb, csv, sample_ids, upd >>
    /\ UNCHANGED << call, fs, wqp, has_folders, Stations, Results, ins, attempts, commits,
                    retry >>

\* seed_station_file with the station loop still running among the result files
seed_station_file_late ==
    /\ pc \in {"seed_stations", "seed_results"}
    /\ files > 0
    /\ \E rows \in SeqsUpTo(StationRows, MaxRows) :
         LET wqx == _get_wqx_duplicate_ids_file(rows)
         IN /\ pass' = [read |-> pass.read \cup Range(Ids(rows)),
                        kept |-> pass.kept (+) BagOfSeq(Ids(kept_stations(rows, wqx)))]
            /\ InsertCall(_seed_stations(rows, wqx), "Stations", pc)
    /\ log' = log \o << Event("read", "Stations"), Event("insert", "Stations") >>
    /\ tempdb' = TRUE
    /\ files' = files - 1
    /\ UNCHANGED << call, fs, wqp, has_folders, Stations, Results, uncommitted, csv,
                    sample_ids, upd, op, outcome, runs, executed, retry >>

\* one station file (lines 234-248), up to the call of _insert_rows
seed_station_file ==
    /\ pc = "seed_stations"
    /\ files > 0
    /\ \E rows \in SeqsUpTo(StationRows, MaxRows) :
         LET wqx == _get_wqx_duplicate_ids_file(rows)
         IN /\ pass' = [read |-> pass.read \cup Range(Ids(rows)),
                        kept |-> pass.kept (+) BagOfSeq(Ids(kept_stations(rows, wqx)))]
            /\ InsertCall(_seed_stations(rows, wqx), "Stations", "seed_stations")
    /\ log' = log \o << Event("read", "Stations"), Event("insert", "Stations") >>
    /\ tempdb' = TRUE
    /\ files' = files - 1
    /\ UNCHANGED << call, fs, wqp, has_folders, Stations, Results, uncommitted, csv,
                    sample_ids, upd, op, outcome, runs, executed, retry >>

\* the station files are done: _get_files(self.results_folder) (lines 250-252)
seed_results_folder ==
    /\ pc = "seed_stations"
    /\ files = 0
    /\ \E n \in FilesIn(fs.results) :
         IF n = 0
         THEN /\ Raised("config", "no_csv")
              /\ pass' = pass
         ELSE /\ files' = n
              /\ pass' = NoPass
              /\ pc' = "seed_results"
              /\ UNCHANGED << cursor, uncommitted, tempdb, outcome, csv, sample_ids, upd >>
    /\ UNCHANGED << call, fs, wqp, has_folders, Stations, Results, ins, op, runs, log,
                    executed, attempts, commits, retry >>

\* one result file is opened (lines 252-263): distinct sample ids, index
seed_result_file ==
    /\ pc = "seed_results"
    /\ files > 0
    /\ \E rows \in SeqsUpTo(FileResultRows, MaxRows) :
         /\ csv' = rows
         /\ sample_ids' = Distinct([k \in 1..Len(rows) |-> rows[k].SampleId])
    /\ tempdb' = TRUE
    /\ files' = files - 1
    /\ log' = Append(log, Event("read", "Results"))
    /\ pc' = "seed_samples"
    /\ UNCHANGED << call, fs, wqp, has_folders, cursor, Stations, Results, uncommitted,
                    ins, upd, op, outcome, runs, pass, executed, attempts, commits,
                    retry >>

\* one sample id of the file (lines 265-268), up to the call of _insert_rows
seed_sample ==
    /\ pc = "seed_samples"
    /\ sample_ids # <<>>
    /\ InsertCall(_seed_results(_get_samples_for_id(Head(sample_ids), csv)),
                  "Results", "seed_samples")
    /\ sample_ids' = Tail(sample_ids)
    /\ log' = Append(log, Event("insert", "Results"))
    /\ UNCHANGED << call, fs, wqp, has_folders, tempdb, Stations, Results, uncommitted,
                    files, csv, upd, op, outcome, runs, pass, executed, retry >>

\* the file is done: os.remove(TEMPDB) (lines 276-279)
seed_file_done ==
    /\ pc = "seed_samples"
    /\ sample_ids = <<>>
    /\ tempdb' = FALSE
    /\ csv' = <<>>
    /\ pc' = "seed_results"
    /\ UNCHANGED << call, fs, wqp, has_folders, cursor, Stations, Results, uncommitted,
                    files, sample_ids, ins, upd, op, outcome, runs, log, pass,
                    executed, attempts, commits, retry >>

\* seed_return with the loop over the result files left before its last file
seed_return_early ==
    /\ pc = "seed_results"
    /\ cursor' = "none"
    /\ uncommitted' = NoStatements
    /\ pc' = "idle"
    /\ outcome' = [status |-> "ok", kind |-> None, err |-> None]
    /\ UNCHANGED << call, fs, wqp, has_folders, tempdb, Stations, Results, files, csv,
                    sample_ids, ins, upd, op, runs, log, pass, executed, attempts,
                    commits, retry >>

\* every result file is done: seed() returns (lines 185-187)
seed_return ==
    /\ pc = "seed_results"
    /\ files = 0
    /\ cursor' = "none"
    /\ uncommitted' = NoStatements
    /\ pc' = "idle"
    /\ outcome' = [status |-> "ok", kind |-> None, err |-> None]
    /\ UNCHANGED << call, fs, wqp, has_folders, tempdb, Stations, Results, files, csv,
                    sample_ids, ins, upd, op, runs, log, pass, executed, attempts,
                    commits, retry >>

\* ------------------------------------------------------------------ update
\* HttpClient.get_csv(result_url): the service's rows from startDateLo on
get_csv(rows, last_updated) ==
    LET newer(row) == row.SampleDate >= last_updated
    IN SelectSeq(rows, newer)

\* _group_rows_by_id with line 536 assigning the row instead of adding it
_group_rows_by_id_last(rows) ==
    [id \in {rows[k].SampleId : k \in 1..Len(rows)} |->
        LET same(row) == row.SampleId = id
            all == SelectSeq(rows, same)
        IN << all[Len(all)] >>]

\* _group_rows_by_id (lines 517-540): sample id -> its rows, in arrival order
_group_rows_by_id(rows) ==
    [id \in {rows[k].SampleId : k \in 1..Len(rows)} |->
        LET same(row) == row.SampleId = id IN SelectSeq(rows, same)]

\* _get_unique_sample_ids (lines 642-650), sql['new_results']
_get_unique_sample_ids(keys) == keys \ StoredSampleIds

\* _remove_existing_results with every group passed on
_remove_existing_results_kept(results) == results

\* _remove_existing_results (lines 633-640)
_remove_existing_results(results) ==
    LET unique_sample_ids == _get_unique_sample_ids(DOMAIN results)
    IN [key \in {k \in DOMAIN results : k \in unique_sample_ids} |-> results[key]]

\* _get_unique_station_ids (lines 564-580), sql['new_stations']
_get_unique_station_ids(station_ids) ==
    LET unseen(id) == id \notin StoredStationIds
    IN SelectSeq(station_ids, unseen)

\* the station ids _find_new_station_ids collects (lines 552-558)
referenced_station_ids(rows) ==
    UNION {Range(Ids(rows[key])) : key \in DOMAIN rows}

\* _find_new_station_ids without the question to the destination
_find_new_station_ids_unasked(rows, ids) ==
    IF DOMAIN rows = {} THEN <<>> ELSE ids

\* _find_new_station_ids (lines 542-562); ids is list(unique_station_ids), the
\* set of lines 552-558 in the order line 560 lists it
_find_new_station_ids(rows, ids) ==
    IF DOMAIN rows = {} THEN <<>> ELSE _get_unique_station_ids(ids)

\* the statements _find_new_station_ids executes (lines 549-560)
_find_new_station_ids_queries(rows) == IF DOMAIN rows = {} THEN 0 ELSE 1

\* list.remove(x): the first occurrence of x goes
list_remove(s, x) ==
    LET at == CHOOSE k \in 1..Len(s) : s[k] = x /\ \A j \in 1..(k - 1) : s[j] # x
    IN SubSeq(s, 1, at - 1) \o SubSeq(s, at + 1, Len(s))

RECURSIVE remove_loop_inverted(_, _, _)
\* remove_loop with the test of line 628 turned round
remove_loop_inverted(station_ids, k, uniques) ==
    IF k > Len(station_ids) THEN station_ids
    ELSE IF wqx_re_sub(station_ids[k]) \in uniques
         THEN remove_loop_inverted(list_remove(station_ids, station_ids[k]), k + 1, uniques)
         ELSE remove_loop_inverted(station_ids, k + 1, uniques)

RECURSIVE remove_loop(_, _, _)
\* lines 627-629: for id in station_ids: ... station_ids.remove(id); the
\* iterator of a list goes by index while the loop body shortens the list
remove_loop(station_ids, k, uniques) ==
    IF k > Len(station_ids) THEN station_ids
    ELSE IF wqx_re_sub(station_ids[k]) \notin uniques
         THEN remove_loop(list_remove(station_ids, station_ids[k]), k + 1, uniques)
         ELSE remove_loop(station_ids, k + 1, uniques)

\* _remove_existing_wqx_station_ids without the early return of lines 617-618
_remove_existing_wqx_station_ids_looped(station_ids) ==
    LET wqxs == {id \in Range(station_ids) : wqx_re_search(id)}
        stripped_wqx == CHOOSE q \in SetToSeqs({wqx_re_sub(id) : id \in wqxs}) : TRUE
        uniques == Range(_get_unique_station_ids(stripped_wqx))
    IN remove_loop(station_ids, 1, uniques)

\* _remove_existing_wqx_station_ids (lines 605-631)
_remove_existing_wqx_station_ids(station_ids) ==
    LET wqxs == {id \in Range(station_ids) : wqx_re_search(id)}
    IN IF wqxs = {} THEN station_ids
       ELSE LET stripped_wqx == CHOOSE q \in SetToSeqs({wqx_re_sub(id) : id \in wqxs}) : TRUE
                uniques == Range(_get_unique_station_ids(stripped_wqx))
            IN remove_loop(station_ids, 1, uniques)

\* _extract_stations_by_id taking one row for each wanted id
_extract_stations_by_id_once(rows, station_ids) ==
    LET first(k) == \A j \in 1..(k - 1) : rows[j].StationId # rows[k].StationId
        at == {k \in 1..Len(rows) : rows[k].StationId \in Range(station_ids) /\ first(k)}
        RECURSIVE Pick(_)
        Pick(k) == IF k > Len(rows) THEN <<>>
                   ELSE (IF k \in at THEN << rows[k] >> ELSE <<>>) \o Pick(k + 1)
    IN Pick(1)

\* _extract_stations_by_id (lines 582-603)
_extract_stations_by_id(rows, station_ids) ==
    LET wanted(row) == row.StationId \in Range(station_ids)
    IN SelectSeq(rows, wanted)

\* update() going on to the result request without the check of last_updated
update_unchecked ==
    /\ pc = "idle"
    /\ runs < MaxRuns
    /\ op' = "update"
    /\ runs' = runs + 1
    /\ log' = <<>>
    /\ pass' = NoPass
    /\ executed' = 1
    /\ upd' = [NoUpd EXCEPT !.last_updated = max_sample_date]
    /\ cursor' = "open"
    /\ pc' = "update_results"
    /\ outcome' = [status |-> "running", kind |-> None, err |-> None]
    /\ UNCHANGED << call, fs, wqp, has_folders, Stations, Results, ins, attempts, commits,
                    retry, uncommitted, tempdb, files, csv, sample_ids >>

\* update() up to the check of last_updated (lines 189-194)
update ==
    /\ pc = "idle"
    /\ runs < MaxRuns
    /\ op' = "update"
    /\ runs' = runs + 1
    /\ log' = <<>>
    /\ pass' = NoPass
    /\ executed' = 1
    /\ IF max_sample_date = NoDate
       THEN Raised("no_date", "No last updated date")
       ELSE /\ upd' = [NoUpd EXCEPT !.last_updated = max_sample_date,
                                    !.present = StoredSampleIds]
            /\ cursor' = "open"
            /\ pc' = "update_results"
            /\ outcome' = [status |-> "running", kind |-> None, err |-> None]
            /\ UNCHANGED << uncommitted, tempdb, files, csv, sample_ids >>
    /\ UNCHANGED << call, fs, wqp, has_folders, Stations, Results, ins, attempts, commits,
                    retry >>

\* the result request and the reconciliation of its rows (lines 196-205)
update_results ==
    /\ pc = "update_results"
    /\ \E service \in (IF wqp.asked THEN {wqp.rows}
                        ELSE SeqsUpTo(ServiceResultRows, MaxRows)) :
         LET offered == get_csv(service, upd.last_updated)
             new_results == _remove_existing_results(_group_rows_by_id(offered))
         IN /\ wqp' = [asked |-> TRUE, rows |-> service]
            /\ IF offered = <<>>
               THEN \* get_csv gives a false value (None.keys() fails) or a header
                    \* alone (the statement of new_results has no VALUES)
                    /\ \E e \in {"AttributeError"} \cup DbErrors :
                         Raised(IF e = "AttributeError" THEN "attribute" ELSE "db", e)
                    /\ UNCHANGED << executed, retry >>
               ELSE /\ \E ids \in SetToSeqs(referenced_station_ids(new_results)),
                          groups \in SetToSeqs(DOMAIN new_results) :
                         upd' = [upd EXCEPT
                                   !.new_results = new_results,
                                   !.groups = groups,
                                   !.new_station_ids =
                                       _remove_existing_wqx_station_ids(
                                           _find_new_station_ids(new_results, ids))]
                    /\ executed' = executed + 1
                    /\ retry' = IF retry.state = "none"
                                THEN [retry EXCEPT !.fresh =
                                        {offered[k] : k \in {j \in 1..Len(offered) :
                                            /\ offered[j].SampleDate > upd.last_updated
                                            /\ offered[j].SampleId \notin StoredSampleIds}}]
                                ELSE retry
                    /\ pc' = "update_stations"
                    /\ UNCHANGED << cursor, uncommitted, tempdb, outcome, files, csv,
                                    sample_ids >>
    /\ log' = Append(log, Event("request", "Results"))
    /\ UNCHANGED << call, fs, has_folders, Stations, Results, ins, op, runs, pass, attempts,
                    commits >>

\* update() going on to the result groups without the station request
update_stations_skipped ==
    /\ pc = "update_stations"
    /\ pc' = "update_groups"
    /\ UNCHANGED << call, fs, wqp, has_folders, Stations, Results, op, runs, pass, executed,
                    retry, cursor, uncommitted, tempdb, outcome, files, csv,
                    sample_ids, upd, ins, attempts, commits, log >>

\* update() taking an empty station response for a response without stations
update_stations_empty_passed ==
    /\ pc = "update_stations"
    /\ IF upd.new_station_ids # <<>>
       THEN \E answered \in BOOLEAN, new_stations \in SeqsUpTo(StationRows, MaxRows) :
              IF ~answered
              THEN /\ pc' = "update_groups"
                   /\ log' = Append(log, Event("request", "Stations"))
                   /\ UNCHANGED << ins, attempts, commits, cursor, uncommitted, tempdb,
                                   outcome, files, csv, sample_ids, upd >>
              ELSE LET stations == _extract_stations_by_id(new_stations, upd.new_station_ids)
                       wqx == _get_wqx_duplicate_ids_list(stations)
                   IN /\ InsertCall(_seed_stations(stations, wqx), "Stations", "update_groups")
                      /\ log' = log \o << Event("request", "Stations"),
                                          Event("insert", "Stations") >>
                      /\ UNCHANGED << uncommitted, tempdb, outcome, files, csv,
                                      sample_ids, upd >>
       ELSE /\ pc' = "update_groups"
            /\ UNCHANGED << cursor, uncommitted, tempdb, outcome, files, csv,
                            sample_ids, upd, ins, attempts, commits, log >>
    /\ UNCHANGED << call, fs, wqp, has_folders, Stations, Results, op, runs, pass, executed,
                    retry >>

\* the stations of the new results (lines 207-223), up to the call of _insert_rows
update_stations ==
    /\ pc = "update_stations"
    /\ IF upd.new_station_ids # <<>>
       THEN \E answered \in BOOLEAN, new_stations \in SeqsUpTo(StationRows, MaxRows) :
              IF ~answered
              THEN /\ Raised("service", "empty")
                   /\ log' = Append(log, Event("request", "Stations"))
                   /\ UNCHANGED << ins, attempts, commits >>
              ELSE LET stations == _extract_stations_by_id(new_stations, upd.new_station_ids)
                       wqx == _get_wqx_duplicate_ids_list(stations)
                   IN /\ InsertCall(_seed_stations(stations, wqx), "Stations", "update_groups")
                      /\ log' = log \o << Event("request", "Stations"),
                                          Event("insert", "Stations") >>
                      /\ upd' = [upd EXCEPT !.answered =
                                    Range(upd.new_station_ids) \subseteq Range(Ids(new_stations))]
                      /\ UNCHANGED << uncommitted, tempdb, outcome, files, csv,
                                      sample_ids >>
       ELSE /\ pc' = "update_groups"
            /\ UNCHANGED << cursor, uncommitted, tempdb, outcome, files, csv,
                            sample_ids, upd, ins, attempts, commits, log >>
    /\ UNCHANGED << call, fs, wqp, has_folders, Stations, Results, op, runs, pass, executed,
                    retry >>

\* one group of new results (lines 224-225), up to the call of _insert_rows
update_group ==
    /\ pc = "update_groups"
    /\ upd.groups # <<>>
    /\ InsertCall(_seed_results(upd.new_results[Head(upd.groups)]), "Results",
                  "update_groups")
    /\ upd' = [upd EXCEPT !.groups = Tail(@)]
    /\ log' = Append(log, Event("insert", "Results"))
    /\ UNCHANGED << call, fs, wqp, has_folders, tempdb, Stations, Results, uncommitted,
                    files, csv, sample_ids, op, outcome, runs, pass, executed, retry >>

\* update_return with the cursor left on the program
update_return_cursor_kept ==
    /\ pc = "update_groups"
    /\ upd.groups = <<>>
    /\ pc' = "idle"
    /\ outcome' = [status |-> "ok", kind |-> None, err |-> None]
    /\ retry' = IF retry.state = "pending" THEN [retry EXCEPT !.state = "done"] ELSE retry
    /\ UNCHANGED << call, fs, wqp, has_folders, tempdb, Stations, Results, files, csv,
                    sample_ids, ins, upd, op, runs, log, pass, executed, attempts,
                    commits, cursor, uncommitted >>

\* every group is inserted: update() returns (lines 227-229)
update_return ==
    /\ pc = "update_groups"
    /\ upd.groups = <<>>
    /\ cursor' = "none"
    /\ uncommitted' = NoStatements
    /\ pc' = "idle"
    /\ outcome' = [status |-> "ok", kind |-> None, err |-> None]
    /\ retry' = IF retry.state = "pending" THEN [retry EXCEPT !.state = "done"] ELSE retry
    /\ UNCHANGED << call, fs, wqp, has_folders, tempdb, Stations, Results, files, csv,
                    sample_ids, ins, upd, op, runs, log, pass, executed, attempts,
                    commits >>

\* --------------------------------------------------------------------- Spec
FsStates ==
    {f \in [parent : BOOLEAN, results : BOOLEAN, stations : BOOLEAN] :
        (f.results \/ f.stations) => f.parent}

\* What earlier runs have left in the destination: nothing, or one sample of
\* date 1 and its charge balance with the stations A-1 and B-2, with the
\* station A-1 alone, or (a sample taken at B-2) with the station B-2 alone.
SeededResult ==
    [SampleId |-> "s1", StationId |-> <<"A", "-", "1">>, SampleDate |-> 1, Param |-> "p"]

Destinations ==
    { [Stations |-> EmptyBag, Results |-> EmptyBag],
      [Stations |-> SetToBag({[StationId |-> <<"A", "-", "1">>],
                              [StationId |-> <<"B", "-", "2">>]}),
       Results |-> SetToBag({SeededResult, [SeededResult EXCEPT !.Param = "CB"]})],
      [Stations |-> SetToBag({[StationId |-> <<"A", "-", "1">>]}),
       Results |-> SetToBag({SeededResult, [SeededResult EXCEPT !.Param = "CB"]})],
      [Stations |-> SetToBag({[StationId |-> <<"B", "-", "2">>]}),
       Results |-> SetToBag({[SeededResult EXCEPT !.StationId = <<"B", "-", "2">>],
                             [SeededResult EXCEPT !.StationId = <<"B", "-", "2">>,
                                                  !.Param = "CB"]})] }

InitProgram ==
    /\ wqp = [asked |-> FALSE, rows |-> <<>>]
    /\ has_folders = FALSE
    /\ tempdb = FALSE
    /\ uncommitted = NoStatements
    /\ files = 0
    /\ csv = <<>>
    /\ sample_ids = <<>>
    /\ upd = NoUpd
    /\ runs = 0
    /\ log = <<>>
    /\ pass = NoPass
    /\ executed = 0
    /\ attempts = <<>>
    /\ commits = 0
    /\ retry = NoRetry
    /\ call = NoCall

\* python -m dbseeder seed: a process starts, constructs the program, seeds
Init ==
    /\ fs \in FsStates
    /\ \E d \in Destinations : Stations = d.Stations /\ Results = d.Results
    /\ pc = "new"
    /\ op = None
    /\ outcome = NoOutcome
    /\ ins = NoIns
    /\ cursor = "none"
    /\ InitProgram

Next ==
    \/ __init__
    \/ seed
    \/ seed_station_file
    \/ seed_results_folder
    \/ seed_result_file
    \/ seed_sample
    \/ seed_file_done
    \/ seed_return
    \/ InsertExecute
    \/ InsertCommit
    \/ InsertReturn

Spec == Init /\ [][Next]_vars

\* ---------------------------------------------------------------- SpecUpdate
\* a program constructed without a file location, whose caller invokes update()
InitUpdate ==
    /\ fs = [parent |-> FALSE, results |-> FALSE, stations |-> FALSE]
    /\ \E d \in Destinations : Stations = d.Stations /\ Results = d.Results
    /\ pc = "idle"
    /\ op = "__init__"
    /\ outcome = [status |-> "ok", kind |-> None, err |-> None]
    /\ ins = NoIns
    /\ cursor = "none"
    /\ InitProgram

NextUpdate ==
    \/ update
    \/ update_results
    \/ update_stations
    \/ update_group
    \/ update_return
    \/ InsertExecute
    \/ InsertCommit
    \/ InsertReturn

SpecUpdate == InitUpdate /\ [][NextUpdate]_vars

\* ---------------------------------------------------------------- SpecInsert
\* one call of _insert_rows on an open program, for lists of rows that end
\* before, at and after a full batch
InsertSizes == {0, 1, 2, batch_size - 1, batch_size, batch_size + ExtraRows}

InitInsert ==
    /\ fs = [parent |-> FALSE, results |-> FALSE, stations |-> FALSE]
    /\ Stations = EmptyBag
    /\ Results = EmptyBag
    /\ InitProgram
    /\ op = "_insert_rows"
    /\ outcome = [status |-> "running", kind |-> None, err |-> None]
    /\ \E n \in InsertSizes :
         ins = [rows |-> IF n = 0 THEN <<>>
                         ELSE << [row |-> [StationId |-> <<"A", "-", "1">>], times |-> n] >>,
                tbl |-> "Stations", i |-> 1, pos |-> 1, ret |-> "idle",
                state |-> "running"]
    /\ cursor = "open"
    /\ pc = "insert_execute"

NextInsert ==
    \/ InsertExecute
    \/ InsertCommit
    \/ InsertReturn

SpecInsert == InitInsert /\ [][NextInsert]_vars

\* --------------------------------------------------------------- SpecHelpers
\* the helpers of the duplicate handling called on their own, as the tests call
\* them, on a program constructed without a file location
SourceIds == StationIds \cup { <<"A", "DWQX", "-", "1">> }

\* the statements _remove_existing_wqx_station_ids executes (lines 613-624)
_remove_existing_wqx_station_ids_queries(station_ids) ==
    IF {id \in Range(station_ids) : wqx_re_search(id)} = {} THEN 0 ELSE 1

\* _get_wqx_duplicate_ids(file_path) and _get_wqx_duplicate_ids(stations)
call_get_wqx_duplicate_ids ==
    /\ pc = "idle"
    /\ call.fn = None
    /\ \E kind \in {"file", "list"}, rows \in SeqsUpTo([StationId : SourceIds], MaxIds) :
         /\ call' = [fn |-> "_get_wqx_duplicate_ids",
                     arg |-> [kind |-> kind, rows |-> rows],
                     ret |-> IF kind = "file" THEN _get_wqx_duplicate_ids_file(rows)
                             ELSE _get_wqx_duplicate_ids_list(rows),
                     queries |-> 0, err |-> None]
         /\ tempdb' = (tempdb \/ kind = "file")
    /\ UNCHANGED << fs, wqp, pc, has_folders, cursor, Stations, Results, uncommitted,
                    files, csv, sample_ids, ins, upd, op, outcome, runs, log, pass,
                    executed, attempts, commits, retry >>

\* _remove_existing_wqx_station_ids(station_ids)
call_remove_existing_wqx_station_ids ==
    /\ pc = "idle"
    /\ call.fn = None
    /\ \E station_ids \in SeqsUpTo(SourceIds, MaxIds) :
         /\ call' = [fn |-> "_remove_existing_wqx_station_ids",
                     arg |-> station_ids,
                     ret |-> _remove_existing_wqx_station_ids(station_ids),
                     queries |-> _remove_existing_wqx_station_ids_queries(station_ids),
                     err |-> None]
         /\ cursor' = IF _remove_existing_wqx_station_ids_queries(station_ids) > 0
                      THEN "open" ELSE cursor
    /\ UNCHANGED << fs, wqp, pc, has_folders, tempdb, Stations, Results, uncommitted,
                    files, csv, sample_ids, ins, upd, op, outcome, runs, log, pass,
                    executed, attempts, commits, retry >>

\* the first row of a csv response: the names of its columns
HeaderRow ==
    [SampleId |-> "ActivityIdentifier", StationId |-> <<"MonitoringLocationIdentifier">>,
     SampleDate |-> NoDate, Param |-> "CharacteristicName"]

\* _group_rows_by_id(cursor) on a response: nothing for a false cursor (lines
\* 526-527), else the header is taken off (line 529) and the rest is grouped
group_response(response) ==
    IF response = <<>> THEN [none \in {} |-> <<>>]
    ELSE _group_rows_by_id(Tail(response))

call_group_rows_by_id ==
    /\ pc = "idle"
    /\ call.fn = None
    /\ \E rows \in SeqsUpTo(ServiceResultRows, MaxIds) :
         call' = [fn |-> "_group_rows_by_id", arg |-> << HeaderRow >> \o rows,
                  ret |-> group_response(<< HeaderRow >> \o rows),
                  queries |-> 0, err |-> None]
    /\ UNCHANGED << fs, wqp, pc, has_folders, cursor, tempdb, Stations, Results,
                    uncommitted, files, csv, sample_ids, ins, upd, op, outcome, runs,
                    log, pass, executed, attempts, commits, retry >>

call_extract_stations_by_id ==
    /\ pc = "idle"
    /\ call.fn = None
    /\ \E rows \in SeqsUpTo([StationId : SourceIds], MaxIds), wanted \in SUBSET SourceIds :
         LET station_ids == CHOOSE q \in SetToSeqs(wanted) : TRUE
         IN call' = [fn |-> "_extract_stations_by_id",
                     arg |-> [rows |-> rows, station_ids |-> station_ids],
                     ret |-> _extract_stations_by_id(rows, station_ids),
                     queries |-> 0, err |-> None]
    /\ UNCHANGED << fs, wqp, pc, has_folders, cursor, tempdb, Stations, Results,
                    uncommitted, files, csv, sample_ids, ins, upd, op, outcome, runs,
                    log, pass, executed, attempts, commits, retry >>

call_find_new_station_ids ==
    /\ pc = "idle"
    /\ call.fn = None
    /\ \E offered \in SeqsUpTo(ServiceResultRows, MaxIds) :
         LET rows == _group_rows_by_id(offered)
         IN \E ids \in SetToSeqs(referenced_station_ids(rows)) :
              /\ call' = [fn |-> "_find_new_station_ids", arg |-> rows,
                          ret |-> _find_new_station_ids(rows, ids),
                          queries |-> _find_new_station_ids_queries(rows), err |-> None]
              /\ cursor' = IF _find_new_station_ids_queries(rows) > 0 THEN "open"
                           ELSE cursor
    /\ UNCHANGED << fs, wqp, pc, has_folders, tempdb, Stations, Results, uncommitted,
                    files, csv, sample_ids, ins, upd, op, outcome, runs, log, pass,
                    executed, attempts, commits, retry >>

\* a coordinate of a cast row: None, or a number
Coordinates ==
    { [set |-> FALSE, v |-> 0], [set |-> TRUE, v |-> 0], [set |-> TRUE, v |-> 40],
      [set |-> TRUE, v |-> -114] }

\* the truth value Python gives a coordinate: None and 0 are false
truthy(c) == c.set /\ c.v # 0

NoPoint == [zone |-> 0, easting |-> 0, northing |-> 0]

\* Reproject.to_utm(x, y): the point in UTM zone 12 (EPSG 26912)
to_utm(x, y) == [zone |-> 12, easting |-> x, northing |-> y]

\* the rows _update_row is handed: Shape is missing from the row, or None
UpdateRows ==
    [Lon_X : Coordinates, Lat_Y : Coordinates,
     Shape : {[kind |-> "absent", point |-> NoPoint], [kind |-> "null", point |-> NoPoint]},
     DataSource : {None}]

\* _update_row (lines 438-458)
_update_row(row) ==
    LET sourced == [row EXCEPT !.DataSource = "WQP"]
    IN IF ~(truthy(row.Lon_X) /\ truthy(row.Lat_Y)) THEN sourced
       ELSE IF row.Shape.kind = "absent" THEN sourced
       ELSE [sourced EXCEPT !.Shape = [kind |-> "geometry",
                                       point |-> to_utm(row.Lon_X.v, row.Lat_Y.v)]]

call_update_row ==
    /\ pc = "idle"
    /\ call.fn = None
    /\ \E row \in UpdateRows :
         call' = [fn |-> "_update_row", arg |-> row, ret |-> _update_row(row),
                  queries |-> 0, err |-> None]
    /\ UNCHANGED << fs, wqp, pc, has_folders, cursor, tempdb, Stations, Results,
                    uncommitted, files, csv, sample_ids, ins, upd, op, outcome, runs,
                    log, pass, executed, attempts, commits, retry >>

\* ------------------------------------------------------- _etl_column_names
ColumnNames == {"a", "b"}
CellValues == {"x", "y"}

\* a row is a dict of field names to values, or the list of cells of a csv line
Dict(d) == [kind |-> "dict", d |-> d, cells |-> <<>>]
Cells(cells) == [kind |-> "cells", d |-> <<>>, cells |-> cells]
NoRow == [kind |-> "none", d |-> <<>>, cells |-> <<>>]

\* mapping tables: none, the one of the tests, one that swaps two names
Configs ==
    { [c \in {} |-> "a"], [c \in {"a"} |-> "StationId"],
      [c \in ColumnNames |-> IF c = "a" THEN "b" ELSE "a"] }

\* return_value_if_not_in_config (lines 418-422)
return_value_if_not_in_config(key, config) ==
    IF key \in DOMAIN config THEN config[key] ELSE key

\* dict(zip(header, cells)): the pairs up to the shorter of the two, a later
\* pair replacing an earlier one of the same key
dict_zip(header, cells) ==
    LET n == IF Len(header) < Len(cells) THEN Len(header) ELSE Len(cells)
        last(key) == CHOOSE k \in 1..n : header[k] = key /\ \A j \in (k + 1)..n : header[j] # key
    IN [key \in {header[k] : k \in 1..n} |-> cells[last(key)]]

\* _etl_column_names on a dict re-keyed through the mapping table
_etl_column_names_remapped(rows, config, header) ==
    IF rows.kind = "dict"
    THEN LET keys == SetToSeqs(DOMAIN rows.d)
             order == CHOOSE q \in keys : TRUE
         IN Dict(dict_zip([k \in 1..Len(order) |-> return_value_if_not_in_config(order[k], config)],
                          [k \in 1..Len(order) |-> rows.d[order[k]]]))
    ELSE IF rows.cells = <<>> THEN NoRow
    ELSE Dict(dict_zip([k \in 1..Len(header) |->
                           return_value_if_not_in_config(header[k], config)], rows.cells))

\* _etl_column_names (lines 403-431) on a dict and on one line of cells that
\* comes with its header
_etl_column_names(rows, config, header) ==
    IF rows.kind = "dict" THEN rows
    ELSE IF rows.cells = <<>> THEN NoRow
    ELSE Dict(dict_zip([k \in 1..Len(header) |->
                           return_value_if_not_in_config(header[k], config)], rows.cells))

\* the rows handed to _etl_column_names
EtlRows ==
    {Dict(d) : d \in UNION {[names -> CellValues] : names \in SUBSET ColumnNames}}
        \cup {Cells(cells) : cells \in SeqsUpTo(CellValues, MaxRows)}

call_etl_column_names ==
    /\ pc = "idle"
    /\ call.fn = None
    /\ \E rows \in EtlRows, config \in Configs, header \in SeqsUpTo(ColumnNames, MaxRows) :
         /\ rows.kind = "cells" => header # <<>>
         /\ call' = [fn |-> "_etl_column_names",
                     arg |-> [rows |-> rows, config |-> config, header |-> header],
                     ret |-> _etl_column_names(rows, config, header),
                     queries |-> 0, err |-> None]
    /\ UNCHANGED << fs, wqp, pc, has_folders, cursor, tempdb, Stations, Results,
                    uncommitted, files, csv, sample_ids, ins, upd, op, outcome, runs,
                    log, pass, executed, attempts, commits, retry >>

\* ------------------------------------------------- the helpers that query
\* _get_most_recent_result_date (lines 491-505): a failing statement has the
\* cursor deleted before the error is raised
call_get_most_recent_result_date ==
    /\ pc = "idle"
    /\ call.fn = None
    /\ \/ /\ call' = [fn |-> "_get_most_recent_result_date", arg |-> <<>>,
                       ret |-> max_sample_date, queries |-> 1, err |-> None]
          /\ cursor' = "open"
       \/ \E e \in DbErrors :
            /\ call' = [fn |-> "_get_most_recent_result_date", arg |-> <<>>,
                        ret |-> NoDate, queries |-> 1, err |-> e]
            /\ cursor' = "none"
    /\ UNCHANGED << fs, wqp, pc, has_folders, tempdb, Stations, Results, uncommitted,
                    files, csv, sample_ids, ins, upd, op, outcome, runs, log, pass,
                    executed, attempts, commits, retry >>

\* _get_unique_station_ids (lines 564-580): nothing catches a failing statement
call_get_unique_station_ids ==
    /\ pc = "idle"
    /\ call.fn = None
    /\ \E station_ids \in SeqsUpTo(SourceIds, MaxRows) :
         \/ call' = [fn |-> "_get_unique_station_ids", arg |-> station_ids,
                     ret |-> _get_unique_station_ids(station_ids), queries |-> 1,
                     err |-> None]
         \/ \E e \in DbErrors :
              call' = [fn |-> "_get_unique_station_ids", arg |-> station_ids,
                       ret |-> <<>>, queries |-> 1, err |-> e]
    /\ cursor' = "open"
    /\ UNCHANGED << fs, wqp, pc, has_folders, tempdb, Stations, Results, uncommitted,
                    files, csv, sample_ids, ins, upd, op, outcome, runs, log, pass,
                    executed, attempts, commits, retry >>

\* _get_unique_sample_ids (lines 642-650): nothing catches a failing statement
call_get_unique_sample_ids ==
    /\ pc = "idle"
    /\ call.fn = None
    /\ \E keys \in SUBSET SampleIds :
         \/ call' = [fn |-> "_get_unique_sample_ids", arg |-> keys,
                     ret |-> _get_unique_sample_ids(keys), queries |-> 1, err |-> None]
         \/ \E e \in DbErrors :
              call' = [fn |-> "_get_unique_sample_ids", arg |-> keys, ret |-> {},
                       queries |-> 1, err |-> e]
    /\ cursor' = "open"
    /\ UNCHANGED << fs, wqp, pc, has_folders, tempdb, Stations, Results, uncommitted,
                    files, csv, sample_ids, ins, upd, op, outcome, runs, log, pass,
                    executed, attempts, commits, retry >>

NextHelpers ==
    \/ call_get_wqx_duplicate_ids
    \/ call_remove_existing_wqx_station_ids
    \/ call_group_rows_by_id
    \/ call_extract_stations_by_id
    \/ call_find_new_station_ids
    \/ call_update_row
    \/ call_etl_column_names
    \/ call_get_most_recent_result_date
    \/ call_get_unique_station_ids
    \/ call_get_unique_sample_ids

SpecHelpers == InitUpdate /\ [][NextHelpers]_vars

\* ================================================================== claims
\* the rows of Stations whose canonical id is c
CanonicalCopies(c) ==
    LET rows == {r \in BagToSet(Stations) : wqx_re_sub(r.StationId) = c}
        RECURSIVE Sum(_)
        Sum(R) == IF R = {} THEN 0
                  ELSE LET r == CHOOSE x \in R : TRUE
                       IN CopiesIn(r, Stations) + Sum(R \ {r})
    IN Sum(rows)

\* C1: the destination Stations table never holds two rows whose StationId is
\* equal once the '_WQX' marker is stripped
C1_OneRowPerCanonicalId ==
    \A r \in BagToSet(Stations) : CanonicalCopies(wqx_re_sub(r.StationId)) <= 1

\* C2: once a re-invoked update() completes after an update() that aborted on a
\* write error with rows committed, every row the service offered that was
\* newer than the original last-updated date and whose sample id was not in the
\* destination is in the destination
C2_AtLeastOnceDelivery ==
    retry.state = "done" => \A r \in retry.owed : BagIn(r, Results)

\* C3: the list _remove_existing_wqx_station_ids returns to update() holds no
\* '_WQX'-marked id whose stripped id is stored in the Stations table
C3_StoredMarkedIdsDropped ==
    pc = "update_stations" =>
        \A k \in 1..Len(upd.new_station_ids) :
            wqx_re_search(upd.new_station_ids[k]) =>
                wqx_re_sub(upd.new_station_ids[k]) \notin StoredStationIds

\* the rows the station loop kept whose canonical id is c
KeptCopies(c) ==
    LET ids == {id \in BagToSet(pass.kept) : wqx_re_sub(id) = c}
        RECURSIVE Sum(_)
        Sum(R) == IF R = {} THEN 0
                  ELSE LET r == CHOOSE x \in R : TRUE
                       IN CopiesIn(r, pass.kept) + Sum(R \ {r})
    IN Sum(ids)

\* C4: when the station loop of a full load is through, of every bare id and
\* its '_WQX'-marked form that the load read, the bare row was skipped and the
\* marked row inserted: one row of that canonical id was inserted
C4_OneRowPerPair ==
    (op = "seed" /\ pc = "seed_stations" /\ files = 0) =>
        \A b \in pass.read, m \in pass.read :
            (~wqx_re_search(b) /\ wqx_re_search(m) /\ wqx_re_sub(m) = b) =>
                /\ ~BagIn(b, pass.kept)
                /\ BagIn(m, pass.kept)
                /\ KeptCopies(b) = 1

\* C5: in a full load every station file is read and every station insert call
\* is made before the first result file is read and before the first result
\* insert call, and no station statement runs once a result was touched
C5_StationsBeforeResults ==
    op = "seed" =>
        /\ \A j \in 1..Len(log), k \in 1..Len(log) :
               (j < k /\ log[j].tbl = "Results") => log[k].tbl = "Results"
        /\ (pc = "seed_stations" \/ (ins.state = "running" /\ ins.tbl = "Stations")) =>
               \A j \in 1..Len(log) : log[j].tbl = "Stations"

\* a full load has made a station insert call and, later, a result insert call
C5_Witness ==
    /\ op = "seed"
    /\ \E j \in 1..Len(log), k \in 1..Len(log) :
         /\ j < k
         /\ log[j] = Event("insert", "Stations")
         /\ log[k] = Event("insert", "Results")
    /\ executed > 1

\* C6: a configuration error of a full load is raised before any source row
\* is read and before any statement is executed against the destination
C6_ConfigErrorsBeforeWork ==
    (op = "seed" /\ outcome.status = "raised" /\ outcome.kind = "config") =>
        (pass.read = {} /\ executed = 0)

\* C7: construction with a file location succeeds only when the parent folder
\* and both child folders, Results and Stations, exist
C7_ConstructionNeedsBothFolders ==
    has_folders => (fs.parent /\ fs.results /\ fs.stations)

\* C8: a call of _insert_rows that returns has committed at least once
C8_CommitsOncePerCall ==
    ins.state = "returned" => commits >= 1

\* C9: never are more than batch_size executed statements left uncommitted
C9_AtMostOneBatchUncommitted ==
    Pending <= batch_size

\* a call is past its first full batch, the statement of a later row executed
C9_Witness ==
    /\ pc = "insert_commit"
    /\ ins.pos > batch_size
    /\ attempts # <<>>
    /\ attempts[Len(attempts)].to > batch_size
    /\ Pending > 0

\* C10: the statements of a call are executed in row order, each once; a
\* failed statement is the last one of its call, and its error is the error
\* the caller gets
C10_FailureAborts ==
    \A j \in 1..Len(attempts) :
        /\ attempts[j].from = (IF j = 1 THEN 1 ELSE attempts[j - 1].to + 1)
        /\ ~attempts[j].ok =>
              /\ j = Len(attempts)
              /\ ins.state = "raised"
              /\ pc = "idle"
              /\ outcome.status = "raised"
              /\ outcome.err = attempts[j].err

\* the statement of row 2 failed with rows left after it
C10_Witness ==
    /\ ins.state = "raised"
    /\ Len(attempts) = 2
    /\ attempts[2].from = 2
    /\ ~attempts[2].ok
    /\ Remaining(ins.rows) > 1
    /\ outcome.err = attempts[2].err

\* C11: when seed() or update() has returned or raised, whatever the outcome,
\* the program holds no cursor and nothing is left uncommitted on a connection
C11_NoCursorBetweenOperations ==
    (op \in {"seed", "update"} /\ pc = "idle") =>
        (cursor = "none" /\ uncommitted = NoStatements)

\* a second update() has run after an update() that a write error ended, and
\* has returned
C11_Witness ==
    /\ op = "update"
    /\ pc = "idle"
    /\ runs = 2
    /\ retry.state = "done"
    /\ outcome.status = "ok"

\* C12: whenever the full load is between two files, and whenever seed() has
\* returned or raised, the scratch database TEMPDB does not exist
C12_ScratchDeleted ==
    (op = "seed" /\ pc \in {"idle", "seed_stations", "seed_results"}) => ~tempdb

\* the state of the full load, in the words of its state machine
Phase ==
    IF op # "seed" THEN "Idle"
    ELSE IF outcome.status = "raised" THEN "Failed"
    ELSE IF outcome.status = "ok" THEN "Done"
    ELSE IF \/ pc = "seed_stations"
            \/ (pc \in {"insert_execute", "insert_commit"} /\ ins.ret = "seed_stations")
         THEN "ProcessingStations"
         ELSE "ProcessingResults"

PhaseMoves ==
    { <<"Idle", "ProcessingStations">>, <<"ProcessingStations", "ProcessingResults">>,
      <<"ProcessingResults", "Done">>, <<"Idle", "Failed">>,
      <<"ProcessingStations", "Failed">>, <<"ProcessingResults", "Failed">> }

\* C13: the full load moves only Idle -> ProcessingStations ->
\* ProcessingResults -> Done, or from one of the first three to Failed; in Done
\* and in Failed nothing more can happen; the step of a write error inserts
\* nothing and opens no file; Done is entered exactly by the step taken when
\* every result file is exhausted
C13_FullLoadStateMachine ==
    /\ [](Phase \in {"Done", "Failed"} => (pc = "idle" /\ ~ENABLED Next))
    /\ [](Phase = "Done" =>
            /\ files = 0 /\ sample_ids = <<>>
            /\ \A j \in 1..Len(attempts) : attempts[j].ok)
    /\ [][ /\ (Phase' # Phase => <<Phase, Phase'>> \in PhaseMoves)
           /\ (Phase' = "Failed" =>
                 /\ Stations' = Stations /\ Results' = Results
                 /\ log' = log /\ executed' = executed)
           /\ (Phase = "ProcessingResults" /\ pc = "seed_results" /\ files = 0) =>
                 Phase' = "Done"
           /\ (Phase' = "Done" /\ Phase # "Done") =>
                 (Phase = "ProcessingResults" /\ pc = "seed_results" /\ files = 0)
       ]_vars

\* a full load is Done having inserted stations and results from two result files
C13_Witness ==
    /\ Phase = "Done"
    /\ Stations # EmptyBag
    /\ Cardinality({k \in 1..Len(log) : log[k] = Event("read", "Results")}) = 2
    /\ Event("insert", "Results") \in Range(log)

\* C14: an update() on a destination without a maximum SampleDate has raised
\* 'No last updated date' with no request sent to the service, no insert call
\* made and no row inserted
C14_NoDateRaisesFirst ==
    (op = "update" /\ max_sample_date = NoDate) =>
        /\ pc = "idle"
        /\ outcome = [status |-> "raised", kind |-> "no_date", err |-> "No last updated date"]
        /\ log = <<>>
        /\ ~wqp.asked
        /\ ins = NoIns
        /\ Stations = EmptyBag /\ Results = EmptyBag

\* update() was invoked twice on an empty destination and raised both times
C14_Witness ==
    /\ op = "update"
    /\ runs = 2
    /\ max_sample_date = NoDate
    /\ outcome.kind = "no_date"

\* the positions of the log that hold the event ev on table tbl
LogPositions(ev, tbl) == {k \in 1..Len(log) : log[k] = Event(ev, tbl)}

\* C15: in an update() that has not raised, past the reconciliation: with no
\* station id left, no station request and no station insert call is made, and
\* when it returns one insert call was made for each group of new results and
\* their rows are stored; with station ids left, once past the station step the
\* station request and the station insert call precede every result insert call
C15_StationStepOnlyWhenNeeded ==
    (op = "update" /\ outcome.status \in {"running", "ok"} /\ pc # "update_results") =>
        IF upd.new_station_ids = <<>>
        THEN /\ \A k \in 1..Len(log) : log[k].tbl # "Stations"
             /\ outcome.status = "ok" =>
                  /\ Cardinality(LogPositions("insert", "Results"))
                        = Cardinality(DOMAIN upd.new_results)
                  /\ \A id \in DOMAIN upd.new_results :
                        \A k \in 1..Len(upd.new_results[id]) :
                            BagIn(upd.new_results[id][k], Results)
        ELSE pc # "update_stations" =>
                /\ Cardinality(LogPositions("request", "Stations")) = 1
                /\ Cardinality(LogPositions("insert", "Stations")) = 1
                /\ \A j \in LogPositions("request", "Stations"),
                      k \in LogPositions("insert", "Stations"),
                      m \in LogPositions("insert", "Results") : j < k /\ k < m

\* an update() returned having inserted a group of two new rows of a stored
\* station without a station request
C15_Witness ==
    /\ op = "update"
    /\ outcome.status = "ok"
    /\ upd.new_station_ids = <<>>
    /\ \E id \in DOMAIN upd.new_results : Len(upd.new_results[id]) = 2
    /\ LogPositions("insert", "Results") # {}

\* C16: an update() whose station request was answered with nothing has raised
\* the service error, having made no insert call, so that neither a station row
\* nor a result row of that update is stored; and a station request that is not
\* followed by the station insert call has ended the update() that way
C16_EmptyStationResponseAborts ==
    op = "update" =>
        /\ outcome.kind = "service" =>
              /\ pc = "idle" /\ outcome.status = "raised"
              /\ log = << Event("request", "Results"), Event("request", "Stations") >>
              /\ cursor = "none" /\ uncommitted = NoStatements
        /\ (LogPositions("request", "Stations") # {}
                /\ LogPositions("insert", "Stations") = {}) =>
              (outcome.status = "raised" /\ outcome.kind = "service")

\* the service offered rows of the station B_WQX-2, which the destination does
\* not hold, answered the station request with nothing, and update() raised
C16_Witness ==
    /\ op = "update"
    /\ outcome.kind = "service"
    /\ <<"B", "-", "2">> \notin StoredStationIds
    /\ \E k \in 1..Len(wqp.rows) : wqp.rows[k].StationId = <<"B", "_WQX", "-", "2">>
    /\ StoredSampleIds = {"s1"}

\* C17: the groups update() holds after _remove_existing_results are the groups
\* of the offered rows whose sample id is not stored, each with all its rows in
\* the order offered; and no row that an update() executes or has left to
\* execute on Results has a sample id that was stored when the update() began
C17_OnlyNewSampleIds ==
    (op = "update" /\ outcome.status = "running") =>
        /\ pc = "update_stations" =>
              LET offered == get_csv(wqp.rows, upd.last_updated)
                  ids == {offered[k].SampleId : k \in 1..Len(offered)} \ StoredSampleIds
              IN /\ StoredSampleIds = upd.present
                 /\ DOMAIN upd.new_results = ids
                 /\ \A id \in ids :
                       upd.new_results[id] =
                           SelectSeq(offered, LAMBDA row : row.SampleId = id)
        /\ \A r \in BagToSet(uncommitted.Results) : r.SampleId \notin upd.present
        /\ (ins.state = "running" /\ ins.tbl = "Results") =>
              \A k \in 1..Len(ins.rows) : ins.rows[k].row.SampleId \notin upd.present

\* the service offered a group of a stored sample id and a group of a new one,
\* and the update() is executing a row of the new one
C17_Witness ==
    /\ op = "update"
    /\ pc = "insert_commit"
    /\ {wqp.rows[k].SampleId : k \in 1..Len(wqp.rows)} = {"s1", "s2"}
    /\ upd.present = {"s1"}
    /\ DOMAIN upd.new_results = {"s2"}
    /\ uncommitted.Results # EmptyBag

\* the station ids of the batch handed to _get_wqx_duplicate_ids
BatchIds == Range(Ids(call.arg.rows))

\* C18, as the code has it: the set _get_wqx_duplicate_ids returns holds the
\* stripped form of every '_WQX-'-marked id of the batch, whether or not the
\* batch holds a bare row of that id; so it holds the id of every bare row
\* that has a marked twin in the batch
C18_MarkedIdsContribute ==
    call.fn = "_get_wqx_duplicate_ids" =>
        /\ \A m \in BatchIds : wqx_re_search(m) => wqx_re_sub(m) \in call.ret
        /\ \A b \in BatchIds :
              (~wqx_re_search(b) /\ \E m \in BatchIds : wqx_re_search(m) /\ wqx_re_sub(m) = b)
                  => b \in call.ret

\* C18, as the specification has it: the set _get_wqx_duplicate_ids returns is
\* the set of the ids of the bare rows of the batch that have a marked twin in
\* the batch, a marked id without a bare row adding nothing
C18_OnlyPairedIds ==
    call.fn = "_get_wqx_duplicate_ids" =>
        call.ret = {b \in BatchIds : /\ ~wqx_re_search(b)
                                     /\ \E m \in BatchIds : /\ wqx_re_search(m)
                                                            /\ wqx_re_sub(m) = b}

\* a list of stations with a bare row and its marked twin and with a marked
\* row that has no bare row was handed over
C18_Witness ==
    /\ call.fn = "_get_wqx_duplicate_ids"
    /\ call.arg.kind = "list"
    /\ BatchIds = { <<"A", "-", "1">>, <<"A", "_WQX", "-", "1">>, <<"B", "_WQX", "-", "2">> }
    /\ call.ret = { <<"A", "-", "1">>, <<"B", "-", "2">> }

\* C19: for a station file and for a list of stations, the set
\* _get_wqx_duplicate_ids returns is the set of the stripped forms of the
\* '_WQX-'-marked ids of the source: an id without the marker adds nothing
C19_ExactlyStrippedMarkedIds ==
    call.fn = "_get_wqx_duplicate_ids" =>
        call.ret = {wqx_re_sub(m) : m \in {id \in BatchIds : wqx_re_search(id)}}

\* C20: handed a list without a '_WQX-'-marked id,
\* _remove_existing_wqx_station_ids returns the list as it was and executes no
\* statement
C20_NoMarkedIdsNoChange ==
    (/\ call.fn = "_remove_existing_wqx_station_ids"
     /\ \A k \in 1..Len(call.arg) : ~wqx_re_search(call.arg[k])) =>
        /\ call.ret = call.arg
        /\ call.queries = 0
        /\ cursor = "none"

\* a list of two bare ids, one stored and one not, was handed over
C20_Witness ==
    /\ call.fn = "_remove_existing_wqx_station_ids"
    /\ call.arg = << <<"A", "DWQX", "-", "1">>, <<"A", "-", "1">> >>
    /\ <<"A", "-", "1">> \in StoredStationIds
    /\ call.ret = call.arg

\* what sql['new_stations'] reports as not stored when
\* _remove_existing_wqx_station_ids asks it about the stripped marked ids
ReportedNew(station_ids) ==
    {wqx_re_sub(m) : m \in {id \in Range(station_ids) : wqx_re_search(id)}}
        \ StoredStationIds

\* C21: handed a list with a '_WQX-'-marked id,
\* _remove_existing_wqx_station_ids keeps every id, marked or bare, whose
\* stripped form the destination reported as not stored, in the order of the
\* list; a marked id and its bare form that are both new are both kept
C21_ReportedNewIdsKept ==
    (/\ call.fn = "_remove_existing_wqx_station_ids"
     /\ \E k \in 1..Len(call.arg) : wqx_re_search(call.arg[k])) =>
        LET new(id) == wqx_re_sub(id) \in ReportedNew(call.arg)
        IN SelectSeq(call.ret, new) = SelectSeq(call.arg, new)

\* a marked id and its bare form, both new, were handed over and both returned
C21_Witness ==
    /\ call.fn = "_remove_existing_wqx_station_ids"
    /\ call.arg = << <<"A", "_WQX", "-", "1">>, <<"A", "-", "1">> >>
    /\ StoredStationIds = {}
    /\ call.ret = call.arg
    /\ call.queries = 1

\* how many times the row r occurs in the sequence s
Occurrences(r, s) == Cardinality({k \in 1..Len(s) : s[k] = r})

\* C22: _group_rows_by_id puts every data row of a response in the group of its
\* own SampleId and in no other, as often as the response holds it, keeps the
\* order of arrival within a group, and puts the header row in no group; no
\* group is empty
C22_GroupsPartitionRows ==
    call.fn = "_group_rows_by_id" =>
        LET data == Tail(call.arg)
            groups == call.ret
        IN /\ DOMAIN groups = {data[k].SampleId : k \in 1..Len(data)}
           /\ \A id \in DOMAIN groups :
                /\ groups[id] # <<>>
                /\ HeaderRow \notin Range(groups[id])
                /\ \A k \in 1..Len(groups[id]) : groups[id][k].SampleId = id
                /\ \A r \in Range(data) :
                      Occurrences(r, groups[id])
                          = (IF r.SampleId = id THEN Occurrences(r, data) ELSE 0)
                /\ \E at \in [1..Len(groups[id]) -> 1..Len(data)] :
                      /\ \A k \in 1..Len(groups[id]) : data[at[k]] = groups[id][k]
                      /\ \A j, k \in 1..Len(groups[id]) : j < k => at[j] < at[k]

\* a response of two rows of one sample id around a row of another was grouped
\* into a group of two and a group of one
C22_Witness ==
    /\ call.fn = "_group_rows_by_id"
    /\ Len(call.arg) = 4
    /\ call.arg[2].SampleId = "s1" /\ call.arg[3].SampleId = "s2"
    /\ call.arg[4].SampleId = "s1" /\ call.arg[2] # call.arg[4]
    /\ call.ret["s1"] = << call.arg[2], call.arg[4] >>
    /\ Len(call.ret["s2"]) = 1

\* C23: _extract_stations_by_id returns the rows of the source whose StationId
\* is among the wanted ids, each as often as the source holds it and in the
\* order of the source, and no other row
C23_ExactlyWantedStations ==
    call.fn = "_extract_stations_by_id" =>
        LET rows == call.arg.rows
            wanted == Range(call.arg.station_ids)
            out == call.ret
        IN /\ \A k \in 1..Len(out) : out[k].StationId \in wanted /\ out[k] \in Range(rows)
           /\ \A r \in Range(rows) :
                 Occurrences(r, out) = (IF r.StationId \in wanted THEN Occurrences(r, rows)
                                        ELSE 0)
           /\ \E at \in [1..Len(out) -> 1..Len(rows)] :
                 /\ \A k \in 1..Len(out) : rows[at[k]] = out[k]
                 /\ \A j, k \in 1..Len(out) : j < k => at[j] < at[k]

\* of three rows the first and the third were wanted and came back, in order
C23_Witness ==
    /\ call.fn = "_extract_stations_by_id"
    /\ Len(call.arg.rows) = 3
    /\ Len(call.arg.station_ids) = 2
    /\ call.arg.rows[2].StationId \notin Range(call.arg.station_ids)
    /\ call.ret = << call.arg.rows[1], call.arg.rows[3] >>
    /\ call.arg.rows[1] # call.arg.rows[3]

\* C24: the list _find_new_station_ids returns holds, once each, exactly the
\* station ids that a row of the groups refers to and that the Stations table
\* does not hold; for no groups it is empty and no statement was executed
C24_NewReferencedStationIds ==
    call.fn = "_find_new_station_ids" =>
        LET referenced == UNION {{call.arg[id][k].StationId : k \in 1..Len(call.arg[id])} :
                                     id \in DOMAIN call.arg}
        IN /\ Range(call.ret) = referenced \ StoredStationIds
           /\ \A j, k \in 1..Len(call.ret) : j # k => call.ret[j] # call.ret[k]
           /\ DOMAIN call.arg = {} => (call.ret = <<>> /\ call.queries = 0 /\ cursor = "none")

\* groups that refer to the stored station A-1 twice and to the marked id
\* B_WQX-2 gave the one id B_WQX-2
C24_Witness ==
    /\ call.fn = "_find_new_station_ids"
    /\ <<"A", "-", "1">> \in StoredStationIds
    /\ \E id \in DOMAIN call.arg :
         /\ Len(call.arg[id]) = 2
         /\ \A k \in 1..2 : call.arg[id][k].StationId = <<"A", "-", "1">>
    /\ call.ret = << <<"B", "_WQX", "-", "2">> >>
    /\ call.queries = 1

\* C25: for a row whose Lon_X and Lat_Y are both set, whatever their numbers,
\* and that has a Shape field, _update_row sets Shape to the geometry of
\* to_utm(Lon_X, Lat_Y); for a row without one of them Shape stays missing or
\* None
C25_ShapeFromCoordinates ==
    call.fn = "_update_row" =>
        /\ (call.arg.Lon_X.set /\ call.arg.Lat_Y.set /\ call.arg.Shape.kind # "absent") =>
              call.ret.Shape = [kind |-> "geometry",
                                point |-> to_utm(call.arg.Lon_X.v, call.arg.Lat_Y.v)]
        /\ (~call.arg.Lon_X.set \/ ~call.arg.Lat_Y.set) =>
              call.ret.Shape.kind \in {"absent", "null"}

\* C26: handed a dict, _etl_column_names returns it as it is, whatever the
\* mapping table and the header; so the dict it makes of one line of cells
\* comes back unchanged when it is mapped again
C26_MappingIdempotent ==
    call.fn = "_etl_column_names" =>
        /\ call.arg.rows.kind = "dict" => call.ret = call.arg.rows
        /\ call.ret.kind = "dict" =>
              _etl_column_names(call.ret, call.arg.config, call.arg.header) = call.ret

\* a line of two cells was mapped through the table that swaps its two names
C26_Witness ==
    /\ call.fn = "_etl_column_names"
    /\ call.arg.rows = Cells(<< "x", "y" >>)
    /\ call.arg.header = << "a", "b" >>
    /\ DOMAIN call.arg.config = ColumnNames
    /\ call.ret = Dict([key \in ColumnNames |-> IF key = "b" THEN "x" ELSE "y"])

\* C27: a call of _insert_rows that returns after n rows has committed at most
\* n \div batch_size + 1 times: once for each full batch and once at the end
C27_CommitsPerBatch ==
    ins.state = "returned" => commits <= ((ins.pos - 1) \div batch_size) + 1

\* C28: when the statement of a helper has failed and the error has left the
\* helper, the program holds no cursor
C28_FailedStatementDropsCursor ==
    (call.fn # None /\ call.err # None) => cursor = "none"

\* C29: every id without the '_WQX-' marker that is in the list handed to
\* _remove_existing_wqx_station_ids is in the list it returns
C29_BareIdsStay ==
    call.fn = "_remove_existing_wqx_station_ids" =>
        \A k \in 1..Len(call.arg) :
            ~wqx_re_search(call.arg[k]) => call.arg[k] \in Range(call.ret)

\* C30: when update() has returned without error and the station response
\* held a row for every station id requested, every result row the update
\* inserted references a station whose canonical id is in Stations
C30_InsertedResultsHaveStations ==
    (pc = "idle" /\ op = "update" /\ outcome.status = "ok"
        /\ upd.answered) =>
        \A key \in DOMAIN upd.new_results :
            \A k \in 1..Len(upd.new_results[key]) :
                wqx_re_sub(upd.new_results[key][k].StationId) \in StoredStationIds
====
